---- MODULE Spec2Model ----
(***************************************************************************)
(* Profile content composition of the portfolio site: the Profile page     *)
(* (Portfolio, src/src/App.tsx), the Projects page (MicrosoftProjects.tsx) *)
(* and the Timeline page (MicrosoftTimeline.tsx), together with the router *)
(* shell of App.  A page is modelled by the view it renders: the ordered   *)
(* groups, entries, tiles and dividers that its JSX emits.                 *)
(***************************************************************************)
EXTENDS Integers, Sequences, FiniteSets, TLC

\* Bounds of the input collections that Init draws.
MaxSkills == 3
MaxEntries == 1

\* Bound of the renders of Portfolio that are counted.
MaxRenders == 3

(***************************************************************************)
(* The record literals compiled into the three components.                 *)
(***************************************************************************)
CompiledSkills ==
  << [name |-> "React.js", category |-> "Frontend"],
     [name |-> "TypeScript", category |-> "Frontend"],
     [name |-> "JavaScript", category |-> "Frontend"],
     [name |-> "HTML5/CSS", category |-> "Frontend"],
     [name |-> "React Redux", category |-> "Frontend"],
     [name |-> "C#/.NET", category |-> "Backend"],
     [name |-> "Java", category |-> "Backend"],
     [name |-> "REST APIs", category |-> "Backend"],
     [name |-> "PostgreSQL", category |-> "Backend"],
     [name |-> "Python", category |-> "Backend"],
     [name |-> "Azure Portal", category |-> "Cloud"],
     [name |-> "ARM Templates", category |-> "Cloud"],
     [name |-> "Azure Synapse", category |-> "Data"],
     [name |-> "Azure Data Factory", category |-> "Data"] >>

CompiledExperiences ==
  << [ title |-> "Software Engineer 2",
      company |-> "Microsoft - C + AI Silver - Azure Gov Tooling",
      period |-> "Nov 2021 - Present",
      location |-> "Redmond, WA",
      description |-> "Leading development of critical government compliance applications including Azure ConMon and Microsoft Personnel systems.",
      achievements |-> << "Led migration of legacy Azure ConMon (FedRAMP Continuous Monitoring) to modernized web application across multiple clouds",
        "Reduced monthly operational costs by $25,000+ through system modernization and optimization",
        "Streamlined POAM report preparation, cutting 120+ hours per month for U.S. government submissions",
        "Integrated M365 data reducing manual effort by 40+ hours per month",
        "Delivered ConMon Resiliency Feature reducing resolution time from 2 hours to 15 minutes",
        "Achieved 75% reduction in ICMS incidents for Microsoft Personnel application",
        "Optimized rendering performance reducing unnecessary re-renders by 95%" >>,
      technologies |-> << "React.js",
        "TypeScript",
        "C#",
        "Azure Synapse",
        "Azure Data Factory",
        "ARM Templates" >> ],
     [ title |-> "Software Engineer 2",
      company |-> "Northrop Grumman - Mission Systems",
      period |-> "July 2020 - Oct 2021",
      location |-> "San Diego, CA",
      description |-> "Developed features for JP2008 SATCOM web application focusing on full-stack development and code quality.",
      achievements |-> << "Developed and delivered features for JP2008 SATCOM web application",
        "Built RESTful APIs for PostgreSQL database using .NET C#",
        "Optimized query performance with SQL views",
        "Established React.js/JavaScript style guide using VS Code and ESLint",
        "Created library of reusable UI components to enhance development efficiency" >>,
      technologies |-> << "React.js",
        "JavaScript",
        "C#",
        "PostgreSQL",
        ".NET",
        "Visual Studio" >> ],
     [ title |-> "Software Engineer 1",
      company |-> "BAE Systems - Electronic Systems Sector",
      period |-> "June 2019 - July 2020",
      location |-> "San Diego, CA",
      description |-> "Developed major features for MAFPS web application with focus on performance optimization and testing.",
      achievements |-> << "Developed major features for MAFPS (Mobility Air Forces Automated Flight Planning Service)",
        "Improved feature performance by ~10% through memory and performance analysis",
        "Increased test coverage from 68% to 83% using Enzyme unit tests",
        "Participated in Agile Kanban development and customer design meetings",
        "Integrated open-source components to accelerate development" >>,
      technologies |-> << "React.js",
        "JavaScript",
        "React Redux",
        "Enzyme",
        "Jest" >> ] >>

CompiledProjects ==
  << [ title |-> "Tech Lead - MTAC & ConMon Applications and Serving as Temp PM for ConMon",
      description |-> "Leading Two projects under C + AI Silver - Mission Apps. MTAC is a critical compliance application used by US Government to track and manage security compliance of Microsoft Cloud offerings. ConMon is a FedRAMP Continuous Monitoring application used by US Government to track and manage security compliance of Microsoft Cloud offerings. Both applications process trillions of records from 25+ data sources for U.S. government submissions and have 6 different stakeholder teams to manage relationship with.",
      impact |-> << [metric |-> "Mentorship", value |-> "Grew Teammate's Velocity by 20%", icon |-> "People"],
        [metric |-> "Time Saved", value |-> "100+ hours/month by delivering high impact features", icon |-> "SwapHoriz"],
        [metric |-> "Onboarding", value |-> "Virtual DB onboarded 3million+ records daily", icon |-> "Storage"] >>,
      achievements |-> << "Became the Tech Lead for 2 projects - both MTAC & ConMon applications under C + AI Silver - Mission Apps",
        "Tutored and mentored engineers on MTAC and ConMon teams, fostering skill development and knowledge sharing",
        "Worked with Stakeholders to create new high impact features and swap out existing low impact features cutting 60+ hours per month",
        "Spearheading S360 Security Initiative on ConMon and MTAC",
        "Spearheading Cline AI Initiative on Mission Apps" >>,
      technologies |-> << "React.js",
        "TypeScript",
        "Azure Synapse",
        "Azure Data Factory",
        "C#",
        ".NET",
        "Python",
        "ARM Templates",
        "Azure DevOps" >> ],
     [ title |-> "BaselineOS and PhysicalDB Assets Onboarding + Resiliency Feature",
      description |-> "Led the complete migration of legacy Azure ConMon (FedRAMP Continuous Monitoring) to a modernized compliance web application, processing trillions of records from 25+ data sources for U.S. government submissions.",
      impact |-> << [metric |-> "Time Saved", value |-> "120+ hours/month", icon |-> "Speed"],
        [metric |-> "Performance", value |-> "10+ Billion Records Processed Daily", icon |-> "Storage"],
        [metric |-> "Reliability", value |-> "85% Decrease in Incidents", icon |-> "TrendingDown"] >>,
      achievements |-> << "Onboarded Database and BaselineOS Assets onto ConMon Application, enhancing data comprehensiveness and saving 20+ hours per month",
        "Delivered ConMon Resiliency Feature reducing resolution time from 2 hours to 15 minutes and Achieved 85% reduction in ICMS incidents for ConMon Data Pipelines",
        "Led S360 Security Initiative on ConMon",
        "Spearheading Cline AI Initiative on Mission Apps" >>,
      technologies |-> << "React.js",
        "TypeScript",
        "Azure Synapse",
        "Azure Data Factory",
        "C#",
        ".NET",
        "Python",
        "ARM Templates",
        "Azure DevOps" >> ],
     [ title |-> "M365 ConMon Onboarding",
      description |-> "Led the complete migration of legacy Azure ConMon (FedRAMP Continuous Monitoring) to a modernized compliance web application, processing trillions of records from 25+ data sources for U.S. government submissions.",
      impact |-> << [metric |-> "Cost Savings", value |-> "$10K+/month", icon |-> "AttachMoney"],
        [metric |-> "Time Saved", value |-> "40+ hours/month", icon |-> "Speed"] >>,
      achievements |-> << "Integrated M365 data onto ConMon Application reducing manual effort by 40+ hours per month" >>,
      technologies |-> << "React.js",
        "TypeScript",
        "Azure Synapse",
        "Azure Data Factory",
        "C#",
        ".NET",
        "Python",
        "ARM Templates",
        "Azure DevOps" >> ],
     [ title |-> "Azure ConMon Modernization",
      description |-> "Led the complete migration of legacy Azure ConMon (FedRAMP Continuous Monitoring) to a modernized compliance web application, processing trillions of records from 25+ data sources for U.S. government submissions.",
      impact |-> << [metric |-> "Cost Savings", value |-> "$25K+/month", icon |-> "AttachMoney"],
        [metric |-> "Time Saved", value |-> "120+ hours/month", icon |-> "Speed"],
        [metric |-> "Performance", value |-> "10+ Billion Records Processed Daily", icon |-> "Storage"],
        [metric |-> "Reliability", value |-> "85% Decrease in Incidents", icon |-> "TrendingDown"] >>,
      achievements |-> << "Led development of data pipelines and ETL processes using Azure Synapse to aggregate and process data from 25+ sources",
        "Created over 100 dataflows and 30+ pipelines to automate data ingestion, transformation, and loading on a daily basis",
        "Tutored and mentored engineers on MTAC and ConMon teams, fostering skill development and knowledge sharing",
        "Integrated M365 data onto ConMon Application reducing manual effort by 40+ hours per month",
        "Onboarded Database and BaselineOS Assets onto ConMon Application, enhancing data comprehensiveness and saving 40+ hours per month",
        "Worked with Stakeholders to create high impact features streamlining POAM report preparation and cutting 60+ hours per month",
        "Delivered ConMon Resiliency Feature reducing resolution time from 2 hours to 15 minutes and Achieved 85% reduction in ICMS incidents for ConMon Data Pipelines",
        "Spearheading S360 Security Initiative on ConMon",
        "Spearheading Cline AI Initiative on Mission Apps" >>,
      technologies |-> << "React.js",
        "TypeScript",
        "Azure Synapse",
        "Azure Data Factory",
        "C#",
        ".NET",
        "Python",
        "ARM Templates",
        "Azure DevOps" >> ],
     [ title |-> "Microsoft Personnel Systems",
      description |-> "Enhanced and optimized critical personnel management systems for Microsoft's government sector, focusing on security compliance and performance improvements.",
      impact |-> << >>,
      achievements |-> << "Led migration of legacy Azure ConMon (FedRAMP Continuous Monitoring) to modernized web application across multiple clouds",
        "Reduced monthly operational costs by $25,000+ through system modernization and optimization",
        "Streamlined POAM report preparation, cutting 120+ hours per month for U.S. government submissions",
        "Optimized rendering performance reducing unnecessary re-renders by 95%",
        "Worked on Personnel Project to build internal Microsoft employee management system for government contractors",
        "Delivered Features for Government Dynamic Forms and Security Clearance Management" >>,
      technologies |-> << "React.js",
        "TypeScript",
        "C#",
        "Arm Templates",
        "Azure DevOps" >> ] >>

CompiledTimeline ==
  << [ title |-> "Tech Lead - MTAC & ConMon Applications and Serving as Temp PM for ConMon",
      timeline |-> "April 2025 - Present",
      description |-> "Leading Two projects under C + AI Silver - Mission Apps. MTAC is a critical compliance application used by US Government to track and manage security compliance of Microsoft Cloud offerings. ConMon is a FedRAMP Continuous Monitoring application used by US Government to track and manage security compliance of Microsoft Cloud offerings for Azure and M365. Both applications process trillions of records from 25+ data sources for U.S. government submissions and have 6 different stakeholder teams to manage relationship with.",
      impact |-> << [metric |-> "Mentorship", value |-> "Grew Teammate's Velocity by 25%", icon |-> "People"],
        [metric |-> "Time Saved", value |-> "120+ hours/month by delivering high impact features", icon |-> "SwapHoriz"],
        [metric |-> "3 Jobs in 1", value |-> "Tech Lead, IC SWE, Product Manager", icon |-> "People"] >>,
      achievements |-> << "Became the Tech Lead for 2 projects - both MTAC & ConMon applications under C + AI Silver - Mission Apps",
        "Serving as Temp Product Manager for ConMon project, coordinating between multiple teams and stakeholders to ensure timely delivery of features and bug fixes",
        "Tutored and mentored engineers on MTAC and ConMon teams, fostering skill development and knowledge sharing",
        "Worked with Stakeholders to swap out existing low impact features with new high impact features cutting 60+ hours per month",
        "Managed a full slate of features, balancing stakeholder priorities, timelines, and emergency requests, and security requirements",
        "Spearheading S360 Security Initiative on ConMon and MTAC",
        "Spearheading Cline AI Initiative on Mission Apps",
        "Serving as Temp Product Manager for ConMon project, coordinating between multiple teams and stakeholders to ensure timely delivery of features and bug fixes",
        "Onboarded Several High Impact Features automating a total estimated 120+ hours per month of manual work for stakeholders" >>,
      technologies |-> << "React.js",
        "TypeScript",
        "Azure Synapse",
        "Azure Data Factory",
        "C#",
        ".NET",
        "Python",
        "ARM Templates",
        "Azure DevOps" >> ],
     [ title |-> "ConMon Tech Lead - Delivering BaselineOS and PhysicalDB Assets Onboarding + Resiliency Feature + More",
      timeline |-> "March 2024 - April 2025",
      description |-> "Led the complete migration of legacy Azure ConMon (FedRAMP Continuous Monitoring) to a modernized compliance web application, processing trillions of records from 25+ data sources for U.S. government submissions.",
      impact |-> << [metric |-> "Time Saved", value |-> "120+ hours/month", icon |-> "Speed"],
        [metric |-> "Performance", value |-> "10+ Billion Additional Records Processed Daily", icon |-> "Storage"],
        [metric |-> "Reliability", value |-> "85% Decrease in Incidents", icon |-> "TrendingDown"] >>,
      achievements |-> << "ConMon Tech Lead - managed a full slate of features, balancing stakeholder prioties, timelines, and emergency requests",
        "Onboarded Database and BaselineOS Assets onto ConMon Application, enhancing data comprehensiveness and saving 20+ hours per month",
        "Delivered ConMon Resiliency Feature reducing resolution time from 2 hours to 15 minutes and Achieved 85% reduction in ICMS incidents for ConMon Data Pipelines",
        "Led S360 Security Initiative on ConMon",
        "For specific emergency rollback stakeholder requests, I communicated mutliple solutions and tradeoffs, ultimately delivering a solution that satisfied all parties and fit our timeline",
        "Increased personal velocity by improving own processes and improved context switching, and learned how to use AI tools to improve productivity" >>,
      technologies |-> << "React.js",
        "TypeScript",
        "Azure Synapse",
        "Azure Data Factory",
        "C#",
        ".NET",
        "Python",
        "ARM Templates",
        "Azure DevOps" >> ],
     [ title |-> "M365 ConMon Onboarding",
      timeline |-> "Jan 2024 - March 2024",
      description |-> "Led the complete migration of legacy Azure ConMon (FedRAMP Continuous Monitoring) to a modernized compliance web application, processing trillions of records from 25+ data sources for U.S. government submissions.",
      impact |-> << [metric |-> "Cost Savings", value |-> "$10K+/month", icon |-> "AttachMoney"],
        [metric |-> "Time Saved", value |-> "40+ hours/month", icon |-> "Speed"] >>,
      achievements |-> << "Integrated M365 data onto ConMon Application reducing manual effort by 40+ hours per month",
        "Identified and resolved critical data discrepancies between M365 and ConMon datasets, ensuring data integrity and reliability",
        "Collaborated with M365 teams to streamline data ingestion processes, enhancing overall system efficiency" >>,
      technologies |-> << "React.js",
        "TypeScript",
        "Azure Synapse",
        "Azure Data Factory",
        "C#",
        ".NET",
        "Python",
        "ARM Templates",
        "Azure DevOps" >> ],
     [ title |-> "Azure ConMon Modernization",
      timeline |-> "May 2023 - Jan 2024",
      description |-> "Led the complete migration of legacy Azure ConMon (FedRAMP Continuous Monitoring) to a modernized compliance web application, processing trillions of records from 25+ data sources for U.S. government submissions.",
      impact |-> << [metric |-> "Cost Savings", value |-> "$25K+/month", icon |-> "AttachMoney"],
        [metric |-> "Time Saved", value |-> "120+ hours/month", icon |-> "Speed"],
        [metric |-> "Performance", value |-> "2 Billion Records Processed Daily", icon |-> "Storage"],
        [metric |-> "Reliability", value |-> "90% Decrease in need for manual intervention compared to Legacy System", icon |-> "TrendingDown"],
        [metric |-> "Speed", value |-> "10hrs => 2.5hrs Pipeline RunTime", icon |-> "TrendingDown"] >>,
      achievements |-> << "Led development of data pipelines and ETL processes using Azure Synapse to aggregate and process data from 25+ sources",
        "Created a Roadmap of required data processing and ingestion tasks to onboard Azure data onto ConMon Application",
        "Created over 100 dataflows and 30+ pipelines to automate data ingestion, transformation, and loading on a daily basis",
        "Mapped required inputs and outputs of several data processes to figure out how to create POA&Ms more efficiently",
        "Proposed and Delivered Independently effort to reduce overall pipeline runtime from 10hrs long to 2.5hrs in length" >>,
      technologies |-> << "React.js",
        "TypeScript",
        "Azure Synapse",
        "Azure Data Factory",
        "C#",
        ".NET",
        "Python",
        "ARM Templates",
        "Azure DevOps" >> ],
     [ title |-> "Microsoft Personnel Systems",
      timeline |-> "November 2021 - May 2023",
      description |-> "Enhanced and optimized critical personnel management systems for Microsoft's government sector, focusing on security compliance and performance improvements.",
      impact |-> << >>,
      achievements |-> << "Optimized rendering performance reducing unnecessary re-renders by 95% for multiple personnel user interfaces",
        "Worked on the Personnel Project to deliver features for new dynamic Government Forms page",
        "Delivered Security Clearance Management features for Personnel application" >>,
      technologies |-> << "React.js",
        "TypeScript",
        "C#",
        "Arm Templates",
        "Azure DevOps" >> ] >>

(***************************************************************************)
(* Types and helpers.                                                      *)
(***************************************************************************)
\* The closed union type of Skill.category.
Categories == {"Frontend", "Backend", "Cloud", "Data"}

\* Category strings a caller can hand to getCategoryIcon(category: string).
CategoryValues == Categories \cup {"DevOps"}

\* What reading a field that a record literal leaves out evaluates to.
Undefined == "undefined"

\* The ReactNode null, which the type of an impact icon allows.
Null == "null"

\* Array.prototype.indexOf: 0-based index of the first occurrence, else -1.
indexOf(s, x) ==
  IF \E i \in 1..Len(s) : s[i] = x
    THEN (CHOOSE i \in 1..Len(s) : s[i] = x /\ \A j \in 1..(i - 1) : s[j] # x) - 1
    ELSE -1

\* Array.prototype.filter on a category test.
filterCategory(sk, c) == SelectSeq(sk, LAMBDA s : s.category = c)

(***************************************************************************)
(* Portfolio: skill grouping and the category icon.                        *)
(***************************************************************************)
\* A grouping that keys the groups in first-seen order of the skills.
skillCategoriesFirstSeen(sk) ==
  LET firstAt(c) == indexOf([i \in 1..Len(sk) |-> sk[i].category], c)
      present == {c \in Categories : firstAt(c) >= 0}
      absent == <<"Frontend", "Backend", "Cloud", "Data">>
      RECURSIVE order(_)
      order(S) == IF S = {} THEN << >>
                  ELSE LET c == CHOOSE x \in S : \A y \in S : firstAt(x) <= firstAt(y)
                       IN <<c>> \o order(S \ {c})
      keys == order(present) \o SelectSeq(absent, LAMBDA c : c \notin present)
  IN [i \in 1..Len(keys) |-> [key |-> keys[i], value |-> filterCategory(sk, keys[i])]]

\* A grouping whose Cloud filter tests the wrong category.
skillCategoriesWrongFilter(sk) ==
  << [key |-> "Frontend", value |-> filterCategory(sk, "Frontend")],
     [key |-> "Backend", value |-> filterCategory(sk, "Backend")],
     [key |-> "Cloud", value |-> filterCategory(sk, "Data")],
     [key |-> "Data", value |-> filterCategory(sk, "Data")] >>

\* A grouping that prepends instead of appending while filtering.
skillCategoriesReversed(sk) ==
  LET rev(s) == [i \in 1..Len(s) |-> s[Len(s) + 1 - i]]
  IN << [key |-> "Frontend", value |-> rev(filterCategory(sk, "Frontend"))],
        [key |-> "Backend", value |-> rev(filterCategory(sk, "Backend"))],
        [key |-> "Cloud", value |-> rev(filterCategory(sk, "Cloud"))],
        [key |-> "Data", value |-> rev(filterCategory(sk, "Data"))] >>

\* The object literal skillCategories as the sequence Object.entries gives:
\* its four string keys in insertion order, each with its filtered skills.
skillCategories(sk) ==
  << [key |-> "Frontend", value |-> filterCategory(sk, "Frontend")],
     [key |-> "Backend", value |-> filterCategory(sk, "Backend")],
     [key |-> "Cloud", value |-> filterCategory(sk, "Cloud")],
     [key |-> "Data", value |-> filterCategory(sk, "Data")] >>

\* A classifier whose Cloud case falls through to the default.
getCategoryIconCloudDefault(category) ==
  CASE category = "Frontend" -> "Web"
    [] category = "Backend" -> "Code"
    [] category = "Data" -> "Storage"
    [] OTHER -> "Code"

\* The switch of getCategoryIcon, default case included.
getCategoryIcon(category) ==
  CASE category = "Frontend" -> "Web"
    [] category = "Backend" -> "Code"
    [] category = "Cloud" -> "Cloud"
    [] category = "Data" -> "Storage"
    [] OTHER -> "Code"

\* <SkillProgress key={index} skill={skill} />, which shows skill.name.
SkillProgress(skill, index) == [key |-> index, skill |-> skill, text |-> skill.name]

\* A skills card that tests the divider with <= and so closes every group,
\* the last one included, with a Divider.
SkillsSectionDividerAfterEach(sk) ==
  LET cats == skillCategories(sk)
      keys == [i \in 1..Len(cats) |-> cats[i].key]
  IN [i \in 1..Len(cats) |->
        [ key |-> cats[i].key,
          icon |-> getCategoryIcon(cats[i].key),
          header |-> cats[i].key,
          items |-> [j \in 1..Len(cats[i].value) |->
                       SkillProgress(cats[i].value[j], j - 1)],
          divider |-> indexOf(keys, cats[i].key) <= Len(keys) - 1 ]]

\* The Technical Skills card: one Box per entry of skillCategories, with the
\* icon, the category header, the skills and the conditional Divider.
SkillsSection(sk) ==
  LET cats == skillCategories(sk)
      keys == [i \in 1..Len(cats) |-> cats[i].key]
  IN [i \in 1..Len(cats) |->
        [ key |-> cats[i].key,
          icon |-> getCategoryIcon(cats[i].key),
          header |-> cats[i].key,
          items |-> [j \in 1..Len(cats[i].value) |->
                       SkillProgress(cats[i].value[j], j - 1)],
          divider |-> indexOf(keys, cats[i].key) < Len(keys) - 1 ]]

(***************************************************************************)
(* Lists shared by the three pages' entry blocks.                          *)
(***************************************************************************)
\* An achievement list keyed by the text, in which a repeated text keeps
\* only its first item.
AchievementItemsByText(achievements) ==
  LET RECURSIVE firsts(_, _)
      firsts(i, acc) ==
        IF i > Len(achievements) THEN acc
        ELSE IF \E k \in 1..Len(acc) : acc[k] = achievements[i]
          THEN firsts(i + 1, acc)
          ELSE firsts(i + 1, Append(acc, achievements[i]))
      kept == firsts(1, << >>)
  IN [i \in 1..Len(kept) |-> [key |-> i - 1, primary |-> kept[i]]]

\* achievements.map((achievement, i) => <ListItem key={i}> ... )
AchievementItems(achievements) ==
  [i \in 1..Len(achievements) |-> [key |-> i - 1, primary |-> achievements[i]]]

\* A chip list whose chips all carry the same literal key.
TechnologyChipsOneKey(technologies) ==
  [i \in 1..Len(technologies) |-> [key |-> "tech", label |-> technologies[i]]]

\* technologies.map((tech) => <Chip key={tech} label={tech} />)
TechnologyChips(technologies) ==
  [i \in 1..Len(technologies) |-> [key |-> technologies[i], label |-> technologies[i]]]

\* A tile list that shows a placeholder tile when there is no metric.
ImpactTilesPlaceholder(impact) ==
  IF impact = << >>
    THEN << [key |-> 0, bgcolor |-> "success.light", icon |-> "Speed",
             value |-> "N/A", metric |-> "No metrics"] >>
    ELSE [i \in 1..Len(impact) |->
            [ key |-> i - 1,
              bgcolor |-> IF i - 1 = 0 THEN "success.light"
                          ELSE IF i - 1 = 1 THEN "primary.light" ELSE "secondary.light",
              icon |-> impact[i].icon,
              value |-> impact[i].value,
              metric |-> impact[i].metric ]]

\* A tile list that walks the metrics from the last to the first.
ImpactTilesReversed(impact) ==
  [i \in 1..Len(impact) |->
     [ key |-> i - 1,
       bgcolor |-> IF i - 1 = 0 THEN "success.light"
                   ELSE IF i - 1 = 1 THEN "primary.light" ELSE "secondary.light",
       icon |-> impact[Len(impact) + 1 - i].icon,
       value |-> impact[Len(impact) + 1 - i].value,
       metric |-> impact[Len(impact) + 1 - i].metric ]]

\* impact.map((item, i) => <Grid key={i}> tile </Grid>)
ImpactTiles(impact) ==
  [i \in 1..Len(impact) |->
     [ key |-> i - 1,
       bgcolor |-> IF i - 1 = 0 THEN "success.light"
                   ELSE IF i - 1 = 1 THEN "primary.light" ELSE "secondary.light",
       icon |-> impact[i].icon,
       value |-> impact[i].value,
       metric |-> impact[i].metric ]]

(***************************************************************************)
(* Portfolio: the Professional Experience card.                            *)
(***************************************************************************)
\* An experience list that closes every entry with a Divider.
ExperienceSectionAlwaysDivider(exps) ==
  [i \in 1..Len(exps) |->
     [ key |-> i - 1,
       title |-> exps[i].title,
       company |-> exps[i].company,
       locationPeriod |-> <<exps[i].location, exps[i].period>>,
       description |-> exps[i].description,
       achievementsHeading |-> TRUE,
       achievements |-> AchievementItems(exps[i].achievements),
       technologiesHeading |-> TRUE,
       technologies |-> TechnologyChips(exps[i].technologies),
       divider |-> (i - 1 <= Len(exps) - 1) ]]

\* experiences.map((exp, index) => <Box key={index}> ... </Box>)
ExperienceSection(exps) ==
  [i \in 1..Len(exps) |->
     [ key |-> i - 1,
       title |-> exps[i].title,
       company |-> exps[i].company,
       locationPeriod |-> <<exps[i].location, exps[i].period>>,
       description |-> exps[i].description,
       achievementsHeading |-> TRUE,
       achievements |-> AchievementItems(exps[i].achievements),
       technologiesHeading |-> TRUE,
       technologies |-> TechnologyChips(exps[i].technologies),
       divider |-> (i - 1 < Len(exps) - 1) ]]

\* The Portfolio component: what its JSX emits for its skills and experiences.
Portfolio(sk, exps) ==
  [ page |-> "Portfolio",
    groups |-> SkillsSection(sk),
    entries |-> ExperienceSection(exps) ]

(***************************************************************************)
(* MicrosoftProjects and MicrosoftTimeline: one Card per project.  The     *)
(* Card's JSX holds no Divider element, hence divider is FALSE.            *)
(***************************************************************************)
\* A project list that separates its cards the way the experience list does.
MicrosoftProjectsWithDividers(projs) ==
  [ page |-> "MicrosoftProjects",
    groups |-> << >>,
    entries |->
      [i \in 1..Len(projs) |->
         [ key |-> i - 1,
           title |-> projs[i].title,
           description |-> projs[i].description,
           tiles |-> ImpactTiles(projs[i].impact),
           achievementsHeading |-> TRUE,
           achievements |-> AchievementItems(projs[i].achievements),
           technologiesHeading |-> TRUE,
           technologies |-> TechnologyChips(projs[i].technologies),
           divider |-> (i - 1 < Len(projs) - 1) ]] ]

\* The MicrosoftProjects component.
MicrosoftProjects(projs) ==
  [ page |-> "MicrosoftProjects",
    groups |-> << >>,
    entries |->
      [i \in 1..Len(projs) |->
         [ key |-> i - 1,
           title |-> projs[i].title,
           description |-> projs[i].description,
           tiles |-> ImpactTiles(projs[i].impact),
           achievementsHeading |-> TRUE,
           achievements |-> AchievementItems(projs[i].achievements),
           technologiesHeading |-> TRUE,
           technologies |-> TechnologyChips(projs[i].technologies),
           divider |-> FALSE ]] ]

\* A timeline that shows its entries latest-declared first.
MicrosoftTimelineReversed(projs) ==
  [ page |-> "MicrosoftTimeline",
    groups |-> << >>,
    entries |->
      [i \in 1..Len(projs) |->
         [ key |-> i - 1,
           title |-> projs[Len(projs) + 1 - i].title,
           timeline |-> projs[Len(projs) + 1 - i].timeline,
           description |-> projs[Len(projs) + 1 - i].description,
           tiles |-> ImpactTiles(projs[Len(projs) + 1 - i].impact),
           achievementsHeading |-> TRUE,
           achievements |-> AchievementItems(projs[Len(projs) + 1 - i].achievements),
           technologiesHeading |-> TRUE,
           technologies |-> TechnologyChips(projs[Len(projs) + 1 - i].technologies),
           divider |-> FALSE ]] ]

\* The MicrosoftTimeline component; its cards also show project.timeline.
MicrosoftTimeline(projs) ==
  [ page |-> "MicrosoftTimeline",
    groups |-> << >>,
    entries |->
      [i \in 1..Len(projs) |->
         [ key |-> i - 1,
           title |-> projs[i].title,
           timeline |-> projs[i].timeline,
           description |-> projs[i].description,
           tiles |-> ImpactTiles(projs[i].impact),
           achievementsHeading |-> TRUE,
           achievements |-> AchievementItems(projs[i].achievements),
           technologiesHeading |-> TRUE,
           technologies |-> TechnologyChips(projs[i].technologies),
           divider |-> FALSE ]] ]

\* React.cloneElement(item.icon, ...) throws when the icon is null, so the
\* render of a project list throws iff some impact item has such an icon.
ImpactThrows(projs) ==
  \E i \in 1..Len(projs) : \E j \in 1..Len(projs[i].impact) :
    projs[i].impact[j].icon = Null

(***************************************************************************)
(* App: the navigation bar and the routes.                                 *)
(***************************************************************************)
\* A navigation bar whose second link keeps the target of an earlier
\* Projects button, for which no Route exists.
LinkTargetsDeadLink == {"/", "/projects"}

\* The `to` targets of the two navigation bar links.
LinkTargets == {"/", "/microsoft-projects"}

\* Locations the browser can open the application at.
Locations == LinkTargets \cup {"/timeline", "/microsoft-timeline"}

\* What <Routes> renders when no <Route> matches the location.
NoMatch == [page |-> "none", groups |-> << >>, entries |-> << >>]

\* Nothing mounted yet.
Unmounted == [page |-> "unmounted", groups |-> << >>, entries |-> << >>]

\* What React leaves on screen after a render has thrown: with no error
\* boundary the whole tree is unmounted.
Crashed == [page |-> "crashed", groups |-> << >>, entries |-> << >>]

\* <Routes>: the element of the Route whose path matches the location.
Routes(p, sk, exps, projs) ==
  IF p = "/" THEN Portfolio(sk, exps)
  ELSE IF p = "/microsoft-projects" THEN MicrosoftProjects(projs)
  ELSE NoMatch

\* Whether rendering the Route that matches p throws.
RoutesThrows(p, projs) == p = "/microsoft-projects" /\ ImpactThrows(projs)

\* What App shows at location p: the matching element, or nothing at all
\* after a throw.
Display(p, sk, exps, projs) ==
  IF RoutesThrows(p, projs) THEN Crashed ELSE Routes(p, sk, exps, projs)

(***************************************************************************)
(* Input collections other than the compiled-in ones.                      *)
(***************************************************************************)
BoundedSeq(S, n) == UNION {[1..k -> S] : k \in 0..n}

SkillUniverse ==
  { [name |-> "React.js", category |-> "Frontend"],
    [name |-> "TypeScript", category |-> "Frontend"],
    [name |-> "C#", category |-> "Backend"],
    [name |-> "Azure Synapse", category |-> "Data"],
    [name |-> "Jenkins", category |-> "DevOps"] }

ExperienceUniverse ==
  { CompiledExperiences[1], CompiledExperiences[3],
    [CompiledExperiences[2] EXCEPT !.achievements = << >>, !.technologies = << >>],
    [CompiledExperiences[2] EXCEPT !.description = Undefined] }

ProjectUniverse ==
  { CompiledProjects[1], CompiledProjects[5],
    [CompiledProjects[2] EXCEPT !.achievements = << >>, !.technologies = << >>],
    [CompiledProjects[5] EXCEPT !.title = Undefined],
    [CompiledProjects[3] EXCEPT !.impact[2].icon = Null] }

TimelineUniverse ==
  { CompiledTimeline[1], CompiledTimeline[5],
    [CompiledTimeline[2] EXCEPT !.achievements = << >>, !.technologies = << >>],
    [CompiledTimeline[5] EXCEPT !.description = Undefined],
    [CompiledTimeline[3] EXCEPT !.impact[1].icon = Null] }

(***************************************************************************)
(* State.                                                                  *)
(***************************************************************************)
VARIABLES
  skills,            \* Portfolio's skills array
  experiences,       \* Portfolio's experiences array
  projects,          \* the projects array of MicrosoftProjects.tsx
  timelineProjects,  \* the projects array of MicrosoftTimeline.tsx
  constructed,       \* how often each array literal has been evaluated
  path,              \* the router's current location
  view,              \* what App displays below the navigation bar
  timelineView,      \* what a mounted MicrosoftTimeline displays
  classified,        \* the last getCategoryIcon call: argument and result
  error              \* the error raised so far, "none" if none

vars == <<skills, experiences, projects, timelineProjects, constructed, path,
          view, timelineView, classified, error>>

NoClassification == [category |-> "", icon |-> ""]

\* The array literals evaluated while App shows location p: skills and
\* experiences are local constants of the Portfolio function, so each render
\* of Portfolio builds them again.
PortfolioConstructs(c, p) ==
  IF p = "/"
    THEN [c EXCEPT !.skills = @ + 1, !.experiences = @ + 1]
    ELSE c

\* One collection is drawn from its bounded universe, the others are the
\* compiled-in literals.  Loading App imports MicrosoftProjects.tsx, whose
\* module-level projects array is built then; MicrosoftTimeline.tsx is not
\* imported by App.  App is rendered once at the opening location.
Init ==
  /\ \/ /\ skills \in BoundedSeq(SkillUniverse, MaxSkills)
        /\ experiences = CompiledExperiences
        /\ projects = CompiledProjects
        /\ timelineProjects = CompiledTimeline
     \/ /\ skills = CompiledSkills
        /\ experiences \in BoundedSeq(ExperienceUniverse, MaxEntries)
        /\ projects = CompiledProjects
        /\ timelineProjects = CompiledTimeline
     \/ /\ skills = CompiledSkills
        /\ experiences = CompiledExperiences
        /\ projects \in BoundedSeq(ProjectUniverse, MaxEntries)
        /\ timelineProjects = CompiledTimeline
     \/ /\ skills = CompiledSkills
        /\ experiences = CompiledExperiences
        /\ projects = CompiledProjects
        /\ timelineProjects \in BoundedSeq(TimelineUniverse, MaxEntries)
     \/ /\ skills = CompiledSkills
        /\ experiences = CompiledExperiences
        /\ projects = CompiledProjects
        /\ timelineProjects = CompiledTimeline
  /\ path \in Locations
  /\ constructed = PortfolioConstructs(
       [skills |-> 0, experiences |-> 0, projects |-> 1, timelineProjects |-> 0],
       path)
  /\ view = Display(path, skills, experiences, projects)
  /\ timelineView = Unmounted
  /\ classified = NoClassification
  /\ error = IF RoutesThrows(path, projects) THEN "Error" ELSE "none"

\* A navigation whose render of the Projects page reverses the module-level
\* projects array in place before mapping it.
NavigateReversing(to) ==
  /\ view # Crashed
  /\ to = "/" => constructed.skills < MaxRenders
  /\ path' = to
  /\ constructed' = PortfolioConstructs(constructed, to)
  /\ projects' = IF to = "/microsoft-projects"
                   THEN [i \in 1..Len(projects) |-> projects[Len(projects) + 1 - i]]
                   ELSE projects
  /\ view' = Display(to, skills, experiences, projects')
  /\ error' = IF RoutesThrows(to, projects) THEN "Error" ELSE error
  /\ UNCHANGED <<skills, experiences, timelineProjects, timelineView, classified>>

\* A click on a navigation bar Link: the location changes and App renders
\* the element of the matching Route.  After a throw the navigation bar is
\* gone with the rest of the tree.
Navigate(to) ==
  /\ view # Crashed
  /\ to = "/" => constructed.skills < MaxRenders
  /\ path' = to
  /\ constructed' = PortfolioConstructs(constructed, to)
  /\ view' = Display(to, skills, experiences, projects)
  /\ error' = IF RoutesThrows(to, projects) THEN "Error" ELSE error
  /\ UNCHANGED <<skills, experiences, projects, timelineProjects,
                 timelineView, classified>>

\* A mount of the Timeline page that shares the projects array with the
\* Projects page and writes its own descriptions into it.
MountTimelineSharedArray ==
  /\ timelineView = Unmounted
  /\ constructed' = [constructed EXCEPT !.timelineProjects = @ + 1]
  /\ projects' = [i \in 1..Len(projects) |->
                    IF i <= Len(timelineProjects)
                      THEN [projects[i] EXCEPT
                              !.description = timelineProjects[i].description]
                      ELSE projects[i]]
  /\ timelineView' = IF ImpactThrows(timelineProjects) THEN Crashed
                     ELSE MicrosoftTimeline(timelineProjects)
  /\ error' = IF ImpactThrows(timelineProjects) THEN "Error" ELSE error
  /\ UNCHANGED <<skills, experiences, timelineProjects, path, view, classified>>

\* A host imports and mounts the exported MicrosoftTimeline component (App
\* has no Route for it); the import builds the module's projects array.
MountTimeline ==
  /\ timelineView = Unmounted
  /\ constructed' = [constructed EXCEPT !.timelineProjects = @ + 1]
  /\ timelineView' = IF ImpactThrows(timelineProjects) THEN Crashed
                     ELSE MicrosoftTimeline(timelineProjects)
  /\ error' = IF ImpactThrows(timelineProjects) THEN "Error" ELSE error
  /\ UNCHANGED <<skills, experiences, projects, timelineProjects, path, view,
                 classified>>

\* A call of getCategoryIcon; the function returns an icon for every string
\* and raises nothing.
Classify(category) ==
  /\ classified' = [category |-> category, icon |-> getCategoryIcon(category)]
  /\ UNCHANGED <<skills, experiences, projects, timelineProjects, constructed,
                 path, view, timelineView, error>>

Next ==
  \/ \E to \in LinkTargets : Navigate(to)
  \/ MountTimeline
  \/ \E category \in CategoryValues : Classify(category)

Spec == Init /\ [][Next]_vars

\* The application as it is built: every collection is its compiled-in
\* literal.
InitCompiled ==
  /\ Init
  /\ skills = CompiledSkills
  /\ experiences = CompiledExperiences
  /\ projects = CompiledProjects
  /\ timelineProjects = CompiledTimeline

SpecCompiled == InitCompiled /\ [][Next]_vars

(***************************************************************************)
(* Properties of the skill grouping (Portfolio, Technical Skills card).    *)
(***************************************************************************)
\* The declared category order of the grouping.
DeclaredOrder == <<"Frontend", "Backend", "Cloud", "Data">>

SkillsInEnum == \A i \in 1..Len(skills) : skills[i].category \in Categories

\* The skills of the groups, in group order and then item order.
RECURSIVE FlattenGroups(_)
FlattenGroups(gs) ==
  IF gs = << >> THEN << >>
  ELSE [j \in 1..Len(Head(gs).items) |-> Head(gs).items[j].skill]
         \o FlattenGroups(Tail(gs))

Occurrences(s, x) == Cardinality({i \in 1..Len(s) : s[i] = x})

\* s is t with some elements removed, the order kept.
RECURSIVE IsSubSeq(_, _)
IsSubSeq(s, t) ==
  IF s = << >> THEN TRUE
  ELSE IF t = << >> THEN FALSE
  ELSE IF Head(s) = Head(t) THEN IsSubSeq(Tail(s), Tail(t))
  ELSE IsSubSeq(s, Tail(t))

DividerCount(es) == Cardinality({i \in 1..Len(es) : es[i].divider})

NonEmptyCategories == {c \in Categories : \E i \in 1..Len(skills) : skills[i].category = c}

\* C1 (partition): when every skill's category is one of Frontend, Backend,
\* Cloud, Data, the items of the rendered groups, concatenated in group order
\* and item order, hold every input skill as often as the input does: none
\* is lost, none is duplicated.
C1_Partition ==
  (view.page = "Portfolio" /\ SkillsInEnum) =>
    LET flat == FlattenGroups(view.groups)
    IN /\ Len(flat) = Len(skills)
       /\ \A i \in 1..Len(skills) :
            Occurrences(flat, skills[i]) = Occurrences(skills, skills[i])
       /\ \A i \in 1..Len(flat) :
            Occurrences(flat, flat[i]) = Occurrences(skills, flat[i])

\* Witness of C1: the Profile page is rendered from skills of two categories
\* that the grouping has to reorder.
C1_Witness ==
  /\ view.page = "Portfolio"
  /\ SkillsInEnum
  /\ Len(skills) = 3
  /\ skills[1].category = "Data"
  /\ skills[2].category = "Frontend"
  /\ skills[3].category = "Data"
  /\ FlattenGroups(view.groups) = <<skills[2], skills[1], skills[3]>>

\* C2 (order within a group): two skills of the same category appear in that
\* category's group in their input order, and the group is the input with
\* some skills removed, never rearranged.
C2_OrderWithinGroup ==
  view.page = "Portfolio" =>
    /\ \A g \in 1..Len(view.groups) :
         IsSubSeq([j \in 1..Len(view.groups[g].items) |-> view.groups[g].items[j].skill],
                  skills)
    /\ \A p \in 1..Len(skills) : \A q \in (p + 1)..Len(skills) :
         (skills[p].category = skills[q].category /\ skills[p].category \in Categories) =>
           \E g \in 1..Len(view.groups) :
             /\ view.groups[g].key = skills[p].category
             /\ \E i \in 1..Len(view.groups[g].items) :
                  \E j \in (i + 1)..Len(view.groups[g].items) :
                    /\ view.groups[g].items[i].skill = skills[p]
                    /\ view.groups[g].items[j].skill = skills[q]

\* Witness of C2: two different Frontend skills with a skill of another
\* category between them are rendered in one group.
C2_Witness ==
  /\ view.page = "Portfolio"
  /\ Len(skills) = 3
  /\ skills[1].category = "Frontend"
  /\ skills[2].category = "Backend"
  /\ skills[3].category = "Frontend"
  /\ skills[1] # skills[3]
  /\ view.groups[1].items[1].skill = skills[1]
  /\ view.groups[1].items[2].skill = skills[3]

\* C3 (group order): the groups are emitted in the declared order Frontend,
\* Backend, Cloud, Data whatever the order of the skills in the input.
C3_GroupOrder ==
  view.page = "Portfolio" =>
    \A i \in 1..Len(view.groups) : \A j \in (i + 1)..Len(view.groups) :
      /\ indexOf(DeclaredOrder, view.groups[i].key) >= 0
      /\ indexOf(DeclaredOrder, view.groups[i].key)
           < indexOf(DeclaredOrder, view.groups[j].key)

\* Witness of C3: a Backend skill is listed before every Frontend skill and
\* the Frontend group is still the first group.
C3_Witness ==
  /\ view.page = "Portfolio"
  /\ Len(skills) >= 2
  /\ skills[1].category = "Backend"
  /\ skills[2].category = "Frontend"
  /\ view.groups[1].key = "Frontend"
  /\ Len(view.groups[1].items) > 0
  /\ view.groups[2].key = "Backend"

\* C4 (empty-group omission): a category that no skill belongs to produces no
\* group on the Profile page, so every rendered group has at least one item.
C4_EmptyGroupOmitted ==
  view.page = "Portfolio" =>
    \A g \in 1..Len(view.groups) :
      /\ view.groups[g].key \in NonEmptyCategories
      /\ Len(view.groups[g].items) > 0

\* C5 (divider count of the skill groups): with n categories that have a
\* skill, the skills section holds n-1 dividers, and none when n is 0 or 1.
C5_GroupDividerCount ==
  view.page = "Portfolio" =>
    DividerCount(view.groups) =
      IF Cardinality(NonEmptyCategories) <= 1 THEN 0
      ELSE Cardinality(NonEmptyCategories) - 1

\* C6 (concrete scenario): the skills React.js/Frontend, C#/Backend,
\* TypeScript/Frontend give exactly the groups Frontend = [React.js,
\* TypeScript] and Backend = [C#], with one divider, after Frontend.
C6_ConcreteScenario ==
  ( /\ view.page = "Portfolio"
    /\ skills = << [name |-> "React.js", category |-> "Frontend"],
                   [name |-> "C#", category |-> "Backend"],
                   [name |-> "TypeScript", category |-> "Frontend"] >> ) =>
    [g \in 1..Len(view.groups) |->
       [ key |-> view.groups[g].key,
         names |-> [j \in 1..Len(view.groups[g].items) |-> view.groups[g].items[j].text],
         divider |-> view.groups[g].divider ]]
      = << [key |-> "Frontend", names |-> <<"React.js", "TypeScript">>, divider |-> TRUE],
           [key |-> "Backend", names |-> <<"C#">>, divider |-> FALSE] >>

(***************************************************************************)
(* Properties of the entry lists.                                          *)
(***************************************************************************)
\* C7 (experience dividers): the Profile page renders one block per
\* experience, with a divider after every block except the last: n-1
\* dividers for n >= 1 and none for n = 0.
C7_ExperienceDividers ==
  view.page = "Portfolio" =>
    /\ Len(view.entries) = Len(experiences)
    /\ \A i \in 1..Len(view.entries) :
         view.entries[i].divider <=> (i < Len(view.entries))
    /\ DividerCount(view.entries) =
         IF Len(experiences) = 0 THEN 0 ELSE Len(experiences) - 1

\* Witness of C7: the Profile page is rendered from at least two
\* experiences, the last of which has no divider.
C7_Witness ==
  /\ view.page = "Portfolio"
  /\ Len(experiences) >= 2
  /\ view.entries[1].divider
  /\ ~view.entries[Len(view.entries)].divider

C9_UnmappedCategoryFails ==
  (classified # NoClassification /\ classified.category \notin Categories) =>
    /\ error = "ConfigurationError"
    /\ classified.icon = ""

\* C10 (classifier totality): each of Frontend, Backend, Cloud, Data gets
\* its one icon (Web, Code, Cloud, Storage), in a direct call as well as in
\* the group headers of the Profile page, whatever the skills are.
C10_ClassifierTotal ==
  LET icons == [c \in Categories |->
                  CASE c = "Frontend" -> "Web"
                    [] c = "Backend" -> "Code"
                    [] c = "Cloud" -> "Cloud"
                    [] c = "Data" -> "Storage"]
  IN /\ classified.category \in Categories =>
          classified.icon = icons[classified.category]
     /\ view.page = "Portfolio" =>
          \A g \in 1..Len(view.groups) :
            /\ view.groups[g].key \in Categories
            /\ view.groups[g].icon = icons[view.groups[g].key]

\* Witness of C10: Cloud has been classified while the Profile page shows
\* its four group icons.
C10_Witness ==
  /\ classified.category = "Cloud"
  /\ classified.icon = "Cloud"
  /\ view.page = "Portfolio"
  /\ Len(view.groups) = 4

ItemTexts(items) == [j \in 1..Len(items) |-> items[j].primary]

ChipLabels(chips) == [j \in 1..Len(chips) |-> chips[j].label]

\* Every impact icon of the collection is a React element.
IconsAreElements(rs) ==
  \A i \in 1..Len(rs) : \A j \in 1..Len(rs[i].impact) : rs[i].impact[j].icon # Null

\* The card at position i shows the title, description, achievements and
\* technologies of the record at position i.
ShowsRecord(es, rs, i) ==
  /\ es[i].title = rs[i].title
  /\ es[i].description = rs[i].description
  /\ ItemTexts(es[i].achievements) = rs[i].achievements
  /\ ChipLabels(es[i].technologies) = rs[i].technologies

\* C13 (empty impact is valid): an entry of the Projects or Timeline page
\* whose impact is empty raises nothing (the page is rendered whenever all
\* icons of the other entries are elements) and is shown with zero metric
\* tiles and with its title, description, achievements and technologies.
C13_EmptyImpactValid ==
  /\ (path = "/microsoft-projects" /\ IconsAreElements(projects)) =>
       view.page = "MicrosoftProjects"
  /\ (timelineView # Unmounted /\ IconsAreElements(timelineProjects)) =>
       timelineView.page = "MicrosoftTimeline"
  /\ view.page = "MicrosoftProjects" =>
       \A i \in 1..Len(projects) :
         projects[i].impact = << >> =>
           /\ Len(view.entries) >= i
           /\ view.entries[i].tiles = << >>
           /\ ShowsRecord(view.entries, projects, i)
  /\ timelineView.page = "MicrosoftTimeline" =>
       \A i \in 1..Len(timelineProjects) :
         timelineProjects[i].impact = << >> =>
           /\ Len(timelineView.entries) >= i
           /\ timelineView.entries[i].tiles = << >>
           /\ ShowsRecord(timelineView.entries, timelineProjects, i)

\* Witness of C13: both pages show an entry with an empty impact, without
\* tiles and with its achievements, and no error has been raised.
C13_Witness ==
  /\ error = "none"
  /\ view.page = "MicrosoftProjects"
  /\ \E i \in 1..Len(projects) :
       /\ projects[i].impact = << >>
       /\ view.entries[i].tiles = << >>
       /\ Len(view.entries[i].achievements) > 0
  /\ timelineView.page = "MicrosoftTimeline"
  /\ \E i \in 1..Len(timelineProjects) :
       /\ timelineProjects[i].impact = << >>
       /\ timelineView.entries[i].tiles = << >>
       /\ Len(timelineView.entries[i].achievements) > 0

\* C14 (impact tiles keep declared order): the tiles of every rendered
\* entry are the entry's own impact metrics, one tile per metric, in the
\* declared order.
C14_TilesInDeclaredOrder ==
  LET own(es, rs) ==
        \A i \in 1..Len(rs) :
          /\ Len(es) >= i
          /\ Len(es[i].tiles) = Len(rs[i].impact)
          /\ \A j \in 1..Len(rs[i].impact) :
               /\ es[i].tiles[j].metric = rs[i].impact[j].metric
               /\ es[i].tiles[j].value = rs[i].impact[j].value
               /\ es[i].tiles[j].icon = rs[i].impact[j].icon
  IN /\ view.page = "MicrosoftProjects" => own(view.entries, projects)
     /\ timelineView.page = "MicrosoftTimeline" =>
          own(timelineView.entries, timelineProjects)

\* Witness of C14: both pages show an entry with three tiles whose first and
\* last metric differ, next to an entry with other metrics.
C14_Witness ==
  /\ view.page = "MicrosoftProjects"
  /\ Len(view.entries) >= 2
  /\ Len(view.entries[1].tiles) = 3
  /\ view.entries[1].tiles[1].metric # view.entries[1].tiles[3].metric
  /\ view.entries[1].tiles # view.entries[2].tiles
  /\ timelineView.page = "MicrosoftTimeline"
  /\ Len(timelineView.entries) >= 2
  /\ Len(timelineView.entries[1].tiles) = 3
  /\ timelineView.entries[1].tiles[1].metric # timelineView.entries[1].tiles[3].metric

\* C15 (declared order is display order): every page renders the records of
\* its collection once each, in the declared order, none left out.
C15_EntriesInDeclaredOrder ==
  /\ view.page = "Portfolio" =>
       /\ Len(view.entries) = Len(experiences)
       /\ \A i \in 1..Len(experiences) :
            /\ ShowsRecord(view.entries, experiences, i)
            /\ view.entries[i].company = experiences[i].company
  /\ view.page = "MicrosoftProjects" =>
       /\ Len(view.entries) = Len(projects)
       /\ \A i \in 1..Len(projects) : ShowsRecord(view.entries, projects, i)
  /\ timelineView.page = "MicrosoftTimeline" =>
       /\ Len(timelineView.entries) = Len(timelineProjects)
       /\ \A i \in 1..Len(timelineProjects) :
            /\ ShowsRecord(timelineView.entries, timelineProjects, i)
            /\ timelineView.entries[i].timeline = timelineProjects[i].timeline

\* Witness of C15: the Profile page and the Timeline page each show at least
\* two different records.
C15_Witness ==
  /\ view.page = "Portfolio"
  /\ Len(view.entries) >= 2
  /\ experiences[1] # experiences[2]
  /\ timelineView.page = "MicrosoftTimeline"
  /\ Len(timelineView.entries) >= 2
  /\ timelineProjects[1].title # timelineProjects[2].title

\* C16 (empty achievements or technologies are absent sections): an entry
\* whose achievements (technologies) are empty is rendered without an
\* achievements (technologies) section, heading included.
C16_EmptySectionsAbsent ==
  LET absent(es, rs) ==
        \A i \in 1..Len(rs) :
          /\ rs[i].achievements = << >> =>
               ~es[i].achievementsHeading /\ es[i].achievements = << >>
          /\ rs[i].technologies = << >> =>
               ~es[i].technologiesHeading /\ es[i].technologies = << >>
  IN /\ view.page = "Portfolio" => absent(view.entries, experiences)
     /\ view.page = "MicrosoftProjects" => absent(view.entries, projects)
     /\ timelineView.page = "MicrosoftTimeline" =>
          absent(timelineView.entries, timelineProjects)

(***************************************************************************)
(* Properties of the router.                                               *)
(***************************************************************************)
\* The pages the components of the repository can assemble.
AssemblablePages == {"Portfolio", "MicrosoftProjects", "MicrosoftTimeline"}

\* C18 (routing default): as long as no render has thrown, App shows exactly
\* one page: the Profile page at '/', the Projects page at
\* '/microsoft-projects' and the Profile page at any other location.
C18_RoutingDefault ==
  view # Crashed =>
    /\ path = "/" => view.page = "Portfolio"
    /\ path = "/microsoft-projects" => view.page = "MicrosoftProjects"
    /\ path \notin {"/", "/microsoft-projects"} => view.page = "Portfolio"

\* C19 (exposed pages are the assemblable pages): the pages that some
\* location is routed to are exactly the Profile, Projects and Timeline
\* pages; in particular some location shows the Timeline page.
C19_ExposedPagesAreAssemblable ==
  {Routes(p, skills, experiences, projects).page : p \in Locations} \ {"none"}
    = AssemblablePages

(***************************************************************************)
(* Properties of the records' lifetime.                                    *)
(***************************************************************************)
RecordsUnchanged ==
  /\ skills' = skills
  /\ experiences' = experiences
  /\ projects' = projects
  /\ timelineProjects' = timelineProjects

\* C20 as stated (constructed once, read-only): every collection is
\* constructed once at start, so no step after the start constructs a
\* collection, and no step changes a record.
C20_ConstructedOnceAsStated ==
  [][constructed' = constructed /\ RecordsUnchanged]_vars

\* C20 (amended): no step changes, adds or deletes a record of any
\* collection; the projects array is constructed once, when App is loaded,
\* the timeline array when its module is loaded, and the skills and
\* experiences arrays are constructed together, once more by every render of
\* the Profile page.
C20_RecordsReadOnly ==
  [][ /\ RecordsUnchanged
      /\ constructed'.projects = 1 /\ constructed.projects = 1
      /\ constructed'.timelineProjects \in
           {constructed.timelineProjects, constructed.timelineProjects + 1}
      /\ constructed'.timelineProjects # constructed.timelineProjects =>
           (timelineView = Unmounted /\ timelineView' # Unmounted)
      /\ constructed'.skills \in {constructed.skills, constructed.skills + 1}
      /\ constructed'.skills # constructed.skills => path' = "/"
      /\ constructed'.experiences - constructed.experiences
           = constructed'.skills - constructed.skills ]_vars

\* Witness of C20: after two renders of the Profile page, a navigation to
\* the Projects page and a mount of the Timeline page, the collections are
\* the compiled-in ones.
C20_Witness ==
  /\ constructed.skills = 2
  /\ constructed.experiences = 2
  /\ constructed.timelineProjects = 1
  /\ view.page = "MicrosoftProjects"
  /\ timelineView.page = "MicrosoftTimeline"
  /\ skills = CompiledSkills
  /\ experiences = CompiledExperiences
  /\ projects = CompiledProjects
  /\ timelineProjects = CompiledTimeline

(***************************************************************************)
(* Properties across pages.                                                *)
(***************************************************************************)
\* The values of the tiles of the cards, card by card.
TileValues(es) ==
  [i \in 1..Len(es) |-> [j \in 1..Len(es[i].tiles) |-> es[i].tiles[j].value]]

ImpactValues(rs) ==
  [i \in 1..Len(rs) |-> [j \in 1..Len(rs[i].impact) |-> rs[i].impact[j].value]]

\* C21 (page independence): a step that renders the Timeline page leaves
\* what App shows, and the records of every collection, unchanged; a step
\* that changes what App shows leaves the Timeline page and all records
\* unchanged; and each of the two project pages shows the metric values of
\* its own collection, not those of the other page.
C21_PageIndependence ==
  [][ /\ RecordsUnchanged
      /\ timelineView' # timelineView => (view' = view /\ path' = path)
      /\ (view' # view \/ path' # path) => timelineView' = timelineView
      /\ view'.page = "MicrosoftProjects" =>
           TileValues(view'.entries) = ImpactValues(projects)
      /\ timelineView'.page = "MicrosoftTimeline" =>
           TileValues(timelineView'.entries) = ImpactValues(timelineProjects) ]_vars

\* Witness of C21: both project pages are rendered and their first cards
\* show different values for the same metric.
C21_Witness ==
  /\ view.page = "MicrosoftProjects"
  /\ timelineView.page = "MicrosoftTimeline"
  /\ Len(view.entries) >= 1
  /\ Len(timelineView.entries) >= 1
  /\ Len(view.entries[1].tiles) >= 1
  /\ Len(timelineView.entries[1].tiles) >= 1
  /\ view.entries[1].tiles[1].metric = timelineView.entries[1].tiles[1].metric
  /\ view.entries[1].tiles[1].value # timelineView.entries[1].tiles[1].value

\* C22 (no error during rendering): whatever records construction accepts,
\* no render raises an error and no page is lost to one.
C22_NoRenderError ==
  /\ error = "none"
  /\ view # Crashed
  /\ timelineView # Crashed

(***************************************************************************)
(* Further properties of the skill groups.                                 *)
(***************************************************************************)
\* C23 (separator placement): in the skills section every emitted group but
\* the last emitted one is followed by a divider, and the last by none.
C23_SeparatorPlacement ==
  view.page = "Portfolio" =>
    \A g \in 1..Len(view.groups) :
      view.groups[g].divider <=> (g # Len(view.groups))

\* Witness of C23: the Profile page shows several groups for a non-empty
\* skill sequence, the first with a divider and the last without.
C23_Witness ==
  /\ view.page = "Portfolio"
  /\ Len(skills) > 0
  /\ Len(view.groups) >= 2
  /\ view.groups[1].divider
  /\ ~view.groups[Len(view.groups)].divider

\* C24 (group membership is sound): every item of a group has the group's
\* key as its category, and the group's icon is the icon getCategoryIcon
\* gives for the key.
C24_GroupMembershipSound ==
  view.page = "Portfolio" =>
    \A g \in 1..Len(view.groups) :
      /\ \A j \in 1..Len(view.groups[g].items) :
           view.groups[g].items[j].skill.category = view.groups[g].key
      /\ view.groups[g].icon = getCategoryIcon(view.groups[g].key)
      /\ view.groups[g].header = view.groups[g].key

\* Witness of C24: the Cloud group and the Data group each show a skill of
\* their own category under their own icon.
C24_Witness ==
  /\ view.page = "Portfolio"
  /\ \E g, h \in 1..Len(view.groups) :
       /\ view.groups[g].key = "Cloud"
       /\ view.groups[g].icon = "Cloud"
       /\ Len(view.groups[g].items) > 0
       /\ view.groups[h].key = "Data"
       /\ view.groups[h].icon = "Storage"
       /\ Len(view.groups[h].items) > 0

C26_GroupingIdempotent ==
  view.page = "Portfolio" =>
    SkillsSection(FlattenGroups(view.groups)) = view.groups

\* Witness of C26: the rendered groups concatenate to a sequence other than
\* the input, which the grouping had to reorder.
C26_Witness ==
  /\ view.page = "Portfolio"
  /\ SkillsInEnum
  /\ Len(skills) = 3
  /\ skills[1].category = "Data"
  /\ skills[2].category = "Frontend"
  /\ skills[3].category = "Frontend"
  /\ skills[2] # skills[3]
  /\ FlattenGroups(view.groups) # skills

(***************************************************************************)
(* Properties of the achievement lists and the technology chips.           *)
(***************************************************************************)
\* C27 (one list item per achievement occurrence): every rendered entry has
\* as many achievement items as its record has achievements, in the declared
\* order and keyed 0, 1, 2, ...; a text that occurs twice is rendered twice.
C27_AchievementPerOccurrence ==
  LET perOccurrence(es, rs) ==
        \A i \in 1..Len(rs) :
          /\ Len(es) >= i
          /\ Len(es[i].achievements) = Len(rs[i].achievements)
          /\ \A j \in 1..Len(rs[i].achievements) :
               /\ es[i].achievements[j].primary = rs[i].achievements[j]
               /\ es[i].achievements[j].key = j - 1
  IN /\ view.page = "Portfolio" => perOccurrence(view.entries, experiences)
     /\ view.page = "MicrosoftProjects" => perOccurrence(view.entries, projects)
     /\ timelineView.page = "MicrosoftTimeline" =>
          perOccurrence(timelineView.entries, timelineProjects)

\* Witness of C27: the Timeline page shows the first compiled-in entry, whose
\* second and eighth achievement are the same text, as nine items.
C27_Witness ==
  /\ timelineView.page = "MicrosoftTimeline"
  /\ Len(timelineProjects) >= 1
  /\ timelineProjects[1] = CompiledTimeline[1]
  /\ timelineProjects[1].achievements[2] = timelineProjects[1].achievements[8]
  /\ Len(timelineView.entries[1].achievements) = 9
  /\ timelineView.entries[1].achievements[2].primary
       = timelineView.entries[1].achievements[8].primary

\* C28 (technologies are distinct within a record): no record of the
\* compiled-in collections, nor of the collections drawn from them, repeats
\* a technology, so the chips rendered for one entry have pairwise
\* different keys.
C28_TechnologiesDistinct ==
  LET distinct(s) == \A j, k \in 1..Len(s) : j # k => s[j] # s[k]
      records(rs) == \A i \in 1..Len(rs) : distinct(rs[i].technologies)
      chipKeys(es) == \A i \in 1..Len(es) :
                        distinct([j \in 1..Len(es[i].technologies) |->
                                    es[i].technologies[j].key])
  IN /\ records(experiences) /\ records(projects) /\ records(timelineProjects)
     /\ view.page \in {"Portfolio", "MicrosoftProjects"} => chipKeys(view.entries)
     /\ timelineView.page = "MicrosoftTimeline" => chipKeys(timelineView.entries)

\* Witness of C28: the three compiled-in collections are in use and the
\* Projects and Timeline pages show the nine chips of their first entries.
C28_Witness ==
  /\ experiences = CompiledExperiences
  /\ projects = CompiledProjects
  /\ timelineProjects = CompiledTimeline
  /\ view.page = "MicrosoftProjects"
  /\ Len(view.entries[1].technologies) = 9
  /\ timelineView.page = "MicrosoftTimeline"
  /\ Len(timelineView.entries[1].technologies) = 9

(***************************************************************************)
(* Properties of the navigation bar.                                       *)
(***************************************************************************)
\* C29 (navigation links are never dead): every link target of the
\* navigation bar has a matching route, and a click on a link leaves the
\* application at a routed path, '/' or '/microsoft-projects', showing
\* exactly the one page routed there.
C29_LinksNeverDead ==
  [][ /\ \A to \in LinkTargets :
           Routes(to, skills, experiences, projects).page
             \in {"Portfolio", "MicrosoftProjects"}
      /\ (path' # path \/ constructed'.skills # constructed.skills) =>
           /\ path' \in {"/", "/microsoft-projects"}
           /\ view'.page = IF path' = "/" THEN "Portfolio" ELSE "MicrosoftProjects" ]_vars

\* Witness of C29: after clicks on both links, the last one on Microsoft
\* Projects, the Projects page is shown at its path.
C29_Witness ==
  /\ constructed.skills = 2
  /\ path = "/microsoft-projects"
  /\ view.page = "MicrosoftProjects"
====
